---- MODULE Spec2Model ----
(***************************************************************************)
(* A model of the qr-api worker: parameter validation (validators.ts),     *)
(* the raster and vector renderers (qr-generator.ts) and the request       *)
(* handler (index.ts).                                                     *)
(***************************************************************************)
EXTENDS Integers, Sequences, FiniteSets, TLC

VARIABLES
  rqr,        \* renderer input: the module matrix handed over by the QR library
  rparams,    \* renderer input: the ParsedQRParams
  pngOut,     \* what generatePNG left behind (locals and buffer), once it ran
  svgOut,     \* what generateQRCodeSVG left behind (locals and document), once it ran
  colorArg,   \* parseColor's argument
  colorOut,   \* parseColor's outcome, once it ran
  rawArg,     \* validateAndParseParams' argument
  parseOut,   \* validateAndParseParams' outcome, once it ran
  charsetArg, \* convertCharset: the text first converted
  charsetCalls, \* convertCharset: the calls made, each on the result of the one before
  qrlib,      \* the QR library the worker is bundled with: the inputs it cannot encode
  inbox,      \* the requests sent to the worker, in the order they arrive
  taken,      \* how many of them handleQRCodeRequest has been invoked for
  parked,     \* the invocations waiting at an await while another runs: their locals
  served,     \* the exchanges completed, in order: request, parsed parameters, answer
  pc,         \* handleQRCodeRequest: where the invocation stands
  request,    \* handleQRCodeRequest: the Request
  reqParams,  \* handleQRCodeRequest: params, the merged raw parameters
  validated,  \* handleQRCodeRequest: what validateAndParseParams returned or threw
  promise,    \* handleQRCodeRequest: the promise generateQRCode returned, once called
  response    \* handleQRCodeRequest: the Response it resolves with

renderVars == <<rqr, rparams, pngOut, svgOut>>
colorVars == <<colorArg, colorOut>>
validateVars == <<rawArg, parseOut>>
charsetVars == <<charsetArg, charsetCalls>>
handlerVars == <<qrlib, inbox, taken, parked, served,
                 pc, request, reqParams, validated, promise, response>>

vars == <<rqr, rparams, pngOut, svgOut, colorArg, colorOut, rawArg, parseOut,
          charsetArg, charsetCalls,
          qrlib, inbox, taken, parked, served,
          pc, request, reqParams, validated, promise, response>>

\* ------------------------------------------------------------------ bounds

\* Largest canvas side the renderer is exercised with, besides the documented scenario.
MaxRenderSize == 44

\* Longest colour string every string of which is tried.
MaxColorLen == 4

\* How far past the longest data allowed the data tried goes.
MaxDataExcess == 1

\* Longest text every string of which is converted, and how many conversions
\* are made one after the other.
MaxTextLen == 3
MaxConversions == 2

\* How many invocations of the handler are under way at once at most, and how
\* many requests the worker is sent when the client revalidates.
MaxInFlight == 2
MaxRequests == 2

\* ------------------------------------------------------- program constants

MinSize == 10
MaxRasterSize == 1000
MaxVectorSize == 1000000
MaxDataLength == 900
MaxMargin == 50
MaxQzone == 100
DefaultSide == 200
DefaultMargin == 1
DefaultQzone == 0

\* ------------------------------------------------------------ arithmetic

\* Math.max on two integers.
MathMax(a, b) == IF a >= b THEN a ELSE b

\* Math.floor(a / b) for a >= 0, b > 0.
FloorDiv(a, b) == a \div b

\* --------------------------------------------------------------- strings
\* A string is the sequence of its UTF-16 code units, each written as a
\* one-character TLA+ string.

WhiteSpace == {" ", "\t", "\n"}

UpperHexDigits == <<"0", "1", "2", "3", "4", "5", "6", "7", "8", "9", "A", "B", "C", "D", "E", "F">>
LowerHexDigits == <<"0", "1", "2", "3", "4", "5", "6", "7", "8", "9", "a", "b", "c", "d", "e", "f">>

\* The value of a character as a digit, 36 when it is none (radix up to 16).
DigitValue(c) ==
  IF \E i \in 1..16 : LowerHexDigits[i] = c
  THEN (CHOOSE i \in 1..16 : LowerHexDigits[i] = c) - 1
  ELSE IF \E i \in 1..16 : UpperHexDigits[i] = c
       THEN (CHOOSE i \in 1..16 : UpperHexDigits[i] = c) - 1
       ELSE 36

\* s.substr(from - 1): the characters of s from position `from` (1-based) on.
StrFrom(s, from) == SubSeq(s, from, Len(s))

\* The number of characters of s that satisfy Test before the first that does not.
PrefixLen(s, Test(_)) ==
  IF \A i \in 1..Len(s) : Test(s[i]) THEN Len(s)
  ELSE (CHOOSE i \in 1..Len(s) : ~Test(s[i]) /\ \A j \in 1..(i - 1) : Test(s[j])) - 1

\* The number a string of digits denotes in the radix.
RECURSIVE DigitsValue(_, _)
DigitsValue(digits, radix) ==
  IF digits = <<>> THEN 0
  ELSE DigitsValue(SubSeq(digits, 1, Len(digits) - 1), radix) * radix
         + DigitValue(digits[Len(digits)])

NaN == [nan |-> TRUE]
Number(v) == [nan |-> FALSE, val |-> v]

\* isNaN
IsNaN(x) == x.nan

\* The parts of parseInt(s, radix), each named for what it is given.
\* The string after its leading white space.
SkipWhiteSpace(s) == StrFrom(s, PrefixLen(s, LAMBDA c : c \in WhiteSpace) + 1)

IsSigned(trimmed) == trimmed # <<>> /\ trimmed[1] \in {"+", "-"}
SignOf(trimmed) == IF IsSigned(trimmed) /\ trimmed[1] = "-" THEN -1 ELSE 1
SkipSign(trimmed) == IF IsSigned(trimmed) THEN StrFrom(trimmed, 2) ELSE trimmed

\* With radix 16 a leading 0x or 0X is skipped.
SkipRadixPrefix(unsigned, radix) ==
  IF radix = 16 /\ Len(unsigned) >= 2 /\ unsigned[1] = "0" /\ unsigned[2] \in {"x", "X"}
  THEN StrFrom(unsigned, 3)
  ELSE unsigned

\* The longest run of digits of the radix the string starts with.
LeadingDigits(str, radix) == SubSeq(str, 1, PrefixLen(str, LAMBDA c : DigitValue(c) < radix))

\* No digit at all is NaN.
SignedNumber(sign, digits, radix) ==
  IF digits = <<>> THEN NaN ELSE Number(sign * DigitsValue(digits, radix))

ParseIntTrimmed(trimmed, radix) ==
  SignedNumber(SignOf(trimmed),
               LeadingDigits(SkipRadixPrefix(SkipSign(trimmed), radix), radix), radix)

\* parseInt(s, radix) for radix 10 or 16: leading white space is skipped, a sign
\* is read, with radix 16 a 0x or 0X is skipped, and the longest run of digits is
\* the number; what follows the digits is ignored.
ParseInt(s, radix) == ParseIntTrimmed(SkipWhiteSpace(s), radix)

\* s.includes(c)
Includes(s, c) == \E i \in 1..Len(s) : s[i] = c

\* s.split(c)
RECURSIVE Split(_, _)
Split(s, c) ==
  IF ~Includes(s, c) THEN <<s>>
  ELSE LET i == CHOOSE i \in 1..Len(s) : s[i] = c /\ \A j \in 1..(i - 1) : s[j] # c
       IN <<SubSeq(s, 1, i - 1)>> \o Split(StrFrom(s, i + 1), c)

\* The printable ASCII characters, from code 32 on (the grave accent by name).
Ascii ==
  <<" ", "!", "\"", "#", "$", "%", "&", "'", "(", ")", "*", "+", ",", "-", ".", "/",
    "0", "1", "2", "3", "4", "5", "6", "7", "8", "9", ":", ";", "<", "=", ">", "?",
    "@", "A", "B", "C", "D", "E", "F", "G", "H", "I", "J", "K", "L", "M", "N", "O",
    "P", "Q", "R", "S", "T", "U", "V", "W", "X", "Y", "Z", "[", "\\", "]", "^", "_",
    "U+0060", "a", "b", "c", "d", "e", "f", "g", "h", "i", "j", "k", "l", "m", "n", "o",
    "p", "q", "r", "s", "t", "u", "v", "w", "x", "y", "z", "{", "|", "}", "~">>

\* Characters beyond ASCII, written by name: e acute (U+00E9), the euro sign (U+20AC),
\* the last character of Latin-1 (U+00FF) and the first beyond it (U+0100), and
\* the first code unit of a surrogate pair (U+D83D).
EAcute == "U+00E9"
Euro == "U+20AC"
YDiaeresis == "U+00FF"
AMacron == "U+0100"
HighSurrogate == "U+D83D"

\* c.charCodeAt(0)
CharCodeAt(c) ==
  IF \E i \in 1..Len(Ascii) : Ascii[i] = c
  THEN 31 + (CHOOSE i \in 1..Len(Ascii) : Ascii[i] = c)
  ELSE IF c = EAcute THEN 233
  ELSE IF c = Euro THEN 8364
  ELSE IF c = YDiaeresis THEN 255
  ELSE IF c = AMacron THEN 256
  ELSE IF c = HighSurrogate THEN 55357
  ELSE IF c = "\t" THEN 9
  ELSE 10

\* undefined or null where a string may stand: a parameter that is not given, a
\* header the request does not carry.
Absent == <<"(absent)", "(absent)">>

\* s.includes(t) for a string t
IncludesStr(s, t) == \E i \in 1..(Len(s) - Len(t) + 1) : SubSeq(s, i, i + Len(t) - 1) = t

\* ------------------------------------------------------------ parseColor

\* throw new QRParamError(message): the status code defaults to 400.
QRParamError(message) ==
  [ok |-> FALSE, name |-> "QRParamError", message |-> message, statusCode |-> 400]

\* The check of one part of the decimal format.
BadRgb(num) == IsNaN(num) \/ num.val < 0 \/ num.val > 255

\* parts.map(...) of the decimal format, for the three numbers parsed.
DecimalTriple(r, g, b) ==
  IF BadRgb(r) \/ BadRgb(g) \/ BadRgb(b)
  THEN QRParamError("RGB values must be between 0 and 255")
  ELSE [ok |-> TRUE, r |-> r.val, g |-> g.val, b |-> b.val]

\* The decimal format, for the parts between the dashes.
DecimalColor(parts) ==
  IF Len(parts) # 3
  THEN QRParamError("Invalid color format. Use RGB format like 255-0-0")
  ELSE DecimalTriple(ParseInt(parts[1], 10), ParseInt(parts[2], 10), ParseInt(parts[3], 10))

\* Either hex format, for the three numbers parsed.
HexTriple(r, g, b) ==
  IF IsNaN(r) \/ IsNaN(g) \/ IsNaN(b)
  THEN QRParamError("Invalid hex color format")
  ELSE [ok |-> TRUE, r |-> r.val, g |-> g.val, b |-> b.val]

\* The hex formats, for the string without its leading #.
HexColor(hex) ==
  IF Len(hex) = 3
  THEN HexTriple(ParseInt(<<hex[1], hex[1]>>, 16), ParseInt(<<hex[2], hex[2]>>, 16),
                 ParseInt(<<hex[3], hex[3]>>, 16))
  ELSE IF Len(hex) = 6
  THEN HexTriple(ParseInt(SubSeq(hex, 1, 2), 16), ParseInt(SubSeq(hex, 3, 4), 16),
                 ParseInt(SubSeq(hex, 5, 6), 16))
  ELSE QRParamError("Invalid color format. Use RGB decimal (255-0-0) or hex (ff0000, f00)")

\* parseColor(colorStr): the triple, or the error thrown.
ParseColor(colorStr) ==
  IF colorStr = <<>> THEN QRParamError("Color parameter is required")
  ELSE IF Includes(colorStr, "-") THEN DecimalColor(Split(colorStr, "-"))
  ELSE HexColor(IF colorStr[1] = "#" THEN StrFrom(colorStr, 2) ELSE colorStr)

\* --------------------------------------------------------------- parseSize

PNG == <<"p", "n", "g">>
SVG == <<"s", "v", "g">>
UTF8 == <<"U", "T", "F", "-", "8">>
Latin1 == <<"I", "S", "O", "-", "8", "8", "5", "9", "-", "1">>
DefaultSizeStr == <<"2", "0", "0", "x", "2", "0", "0">>
DefaultColorStr == <<"0", "-", "0", "-", "0">>
DefaultBgcolorStr == <<"2", "5", "5", "-", "2", "5", "5", "-", "2", "5", "5">>

\* maxSize: 1000 for raster formats, 1000000 for svg.
MaxSizeFor(format) == IF format = SVG THEN MaxVectorSize ELSE MaxRasterSize

\* The checks of parseSize on the two numbers parsed.
CheckedSize(width, height, maxSize) ==
  IF IsNaN(width) \/ IsNaN(height)
  THEN QRParamError("Size values must be numbers")
  ELSE IF width.val # height.val
  THEN QRParamError("QR codes must be square (width must equal height)")
  ELSE IF width.val < MinSize \/ height.val < MinSize
  THEN QRParamError("Size must be at least 10x10")
  ELSE IF width.val > maxSize \/ height.val > maxSize
  THEN QRParamError(IF maxSize = MaxVectorSize
                    THEN "Size cannot exceed 1000000x1000000 for svg format"
                    ELSE "Size cannot exceed 1000x1000 for png format")
  ELSE [ok |-> TRUE, width |-> width.val, height |-> height.val]

\* parseSize after the split at 'x'.
SizeOfParts(parts, maxSize) ==
  IF Len(parts) # 2
  THEN QRParamError("Invalid size format. Use format like 200x200")
  ELSE CheckedSize(ParseInt(parts[1], 10), ParseInt(parts[2], 10), maxSize)

\* parseSize(sizeStr, format): the size, or the error thrown.
ParseSize(sizeStr, format) ==
  IF sizeStr = <<>> THEN [ok |-> TRUE, width |-> DefaultSide, height |-> DefaultSide]
  ELSE SizeOfParts(Split(sizeStr, "x"), MaxSizeFor(format))

\* --------------------------------------------------- validateAndParseParams
\* The raw parameters are a function from the keys given to their strings.

\* params[key] || fallback: the fallback when the key is missing or empty.
OrElse(params, key, fallback) ==
  IF key \in DOMAIN params /\ params[key] # <<>> THEN params[key] ELSE fallback

\* The range check of margin and of qzone.
Bounded(n, max, message) ==
  IF IsNaN(n) \/ n.val < 0 \/ n.val > max
  THEN QRParamError(message)
  ELSE [ok |-> TRUE, val |-> n.val]

\* margin and qzone: parseInt of the string when the key is given.
ParseBounded(params, key, fallback, max, message) ==
  IF key \notin DOMAIN params THEN [ok |-> TRUE, val |-> fallback]
  ELSE Bounded(ParseInt(params[key], 10), max, message)

\* {}: the raw parameters with no key given.
NoParams == [k \in {} |-> <<>>]

\* The checks of validateAndParseParams in their order, for the parameters as
\* defaulted and parsed; the first that fails is the error thrown.
CheckedParams(data, format, size, charsetSource, charsetTarget, ecc, color, bgcolor, margin, qzone) ==
  IF data = <<>> THEN QRParamError("data parameter is mandatory")
  ELSE IF Len(data) > MaxDataLength
  THEN QRParamError("data parameter is too long (max 900 characters)")
  ELSE IF format \notin {PNG, SVG}
  THEN QRParamError("Invalid format. Supported formats: png, svg")
  ELSE IF ~size.ok THEN size
  ELSE IF charsetSource \notin {UTF8, Latin1}
  THEN QRParamError("Invalid charset-source. Use UTF-8 or ISO-8859-1")
  ELSE IF charsetTarget \notin {UTF8, Latin1}
  THEN QRParamError("Invalid charset-target. Use UTF-8 or ISO-8859-1")
  ELSE IF ecc \notin {<<"L">>, <<"M">>, <<"Q">>, <<"H">>}
  THEN QRParamError("Invalid ecc level. Use L, M, Q, or H")
  ELSE IF ~color.ok THEN color
  ELSE IF ~bgcolor.ok THEN bgcolor
  ELSE IF ~margin.ok THEN margin
  ELSE IF ~qzone.ok THEN qzone
  ELSE [ok |-> TRUE, data |-> data,
        size |-> [width |-> size.width, height |-> size.height],
        charsetSource |-> charsetSource, charsetTarget |-> charsetTarget,
        ecc |-> ecc,
        color |-> [r |-> color.r, g |-> color.g, b |-> color.b],
        bgcolor |-> [r |-> bgcolor.r, g |-> bgcolor.g, b |-> bgcolor.b],
        margin |-> margin.val, qzone |-> qzone.val, format |-> format]

\* validateAndParseParams(params): the ParsedQRParams, or the error thrown.
ValidateAndParseParams(params) ==
  CheckedParams(OrElse(params, "data", <<>>),
                OrElse(params, "format", PNG),
                ParseSize(OrElse(params, "size", DefaultSizeStr), OrElse(params, "format", PNG)),
                OrElse(params, "charset-source", UTF8),
                OrElse(params, "charset-target", UTF8),
                OrElse(params, "ecc", <<"L">>),
                ParseColor(OrElse(params, "color", DefaultColorStr)),
                ParseColor(OrElse(params, "bgcolor", DefaultBgcolorStr)),
                ParseBounded(params, "margin", DefaultMargin, MaxMargin,
                             "margin must be between 0 and 50"),
                ParseBounded(params, "qzone", DefaultQzone, MaxQzone,
                             "qzone must be between 0 and 100"))

\* -------------------------------------------------------------- QR matrix

\* qr.getModuleCount()
GetModuleCount(qr) == qr.moduleCount

\* qr.isDark(row, col)
IsDark(qr, row, col) == <<row, col>> \in qr.dark

\* The (row, col) pairs in the order the two nested loops visit them.
ScanOrder(moduleCount) ==
  [k \in 1..(moduleCount * moduleCount) |->
     <<(k - 1) \div moduleCount, (k - 1) % moduleCount>>]

\* The dark modules in scan order: the iterations whose `if (qr.isDark(row, col))` is taken.
DarkInScanOrder(qr) ==
  SelectSeq(ScanOrder(GetModuleCount(qr)), LAMBDA rc : IsDark(qr, rc[1], rc[2]))

\* ------------------------------------------------ getMimeType, convertCharset

GetMimeType(format) == IF format = SVG THEN "image/svg+xml" ELSE "image/png"

\* A convertCharset that returns the text whatever the charsets.
ConvertCharsetKeepingText(text, from, to) == text

\* convertCharset(text, from, to): from UTF-8 to ISO-8859-1 every code unit
\* above 255 becomes '?'; every other pair of charsets returns the text.
ConvertCharset(text, from, to) ==
  IF from = to THEN text
  ELSE IF from = UTF8 /\ to = Latin1
  THEN [i \in 1..Len(text) |-> IF CharCodeAt(text[i]) > 255 THEN "?" ELSE text[i]]
  ELSE text

\* ----------------------------------------------------------- colorToHex

\* n.toString(16).padStart(2, '0') for a byte n.
ToHex(n) ==
  IF n < 16 THEN <<"0", LowerHexDigits[n + 1]>>
  ELSE <<LowerHexDigits[(n \div 16) + 1], LowerHexDigits[(n % 16) + 1]>>

ColorToHex(color) == ToHex(color.r) \o ToHex(color.g) \o ToHex(color.b)

\* ------------------------------------------------------ generateQRCodeSVG

\* SvgGeometry with the whole leftover, not half of it, put before the symbol.
SvgGeometryNotCentred(qr, params) ==
  LET size == params.size.width
      moduleCount == GetModuleCount(qr)
      marginPx == MathMax(0, params.margin)
      totalModules == moduleCount + 2 * params.qzone
      available == MathMax(0, size - 2 * marginPx)
      moduleSize == MathMax(1, FloorDiv(available, totalModules))
      contentSize == moduleSize * totalModules
      leftover == MathMax(0, available - contentSize)
      actualWidth == size
      offset == marginPx + leftover + params.qzone * moduleSize
  IN [moduleCount |-> moduleCount, marginPx |-> marginPx, totalModules |-> totalModules,
      available |-> available, moduleSize |-> moduleSize, contentSize |-> contentSize,
      leftover |-> leftover, actualSize |-> actualWidth, offset |-> offset]

\* The locals of generateQRCodeSVG before the document is built.
SvgGeometry(qr, params) ==
  LET size == params.size.width
      moduleCount == GetModuleCount(qr)
      marginPx == MathMax(0, params.margin)
      totalModules == moduleCount + 2 * params.qzone
      available == MathMax(0, size - 2 * marginPx)
      moduleSize == MathMax(1, FloorDiv(available, totalModules))
      contentSize == moduleSize * totalModules
      leftover == MathMax(0, available - contentSize)
      actualWidth == size
      offset == marginPx + FloorDiv(leftover, 2) + params.qzone * moduleSize
  IN [moduleCount |-> moduleCount, marginPx |-> marginPx, totalModules |-> totalModules,
      available |-> available, moduleSize |-> moduleSize, contentSize |-> contentSize,
      leftover |-> leftover, actualSize |-> actualWidth, offset |-> offset]

\* SvgModuleRect with row and column taken for each other.
SvgModuleRectTransposed(g, rc, dark) ==
  [x |-> g.offset + rc[1] * g.moduleSize,
   y |-> g.offset + rc[2] * g.moduleSize,
   width |-> g.moduleSize, height |-> g.moduleSize,
   fill |-> <<"#">> \o dark]

\* The <rect> appended for one dark module.
SvgModuleRect(g, rc, dark) ==
  [x |-> g.offset + rc[2] * g.moduleSize,
   y |-> g.offset + rc[1] * g.moduleSize,
   width |-> g.moduleSize, height |-> g.moduleSize,
   fill |-> <<"#">> \o dark]

\* The document: the <svg> element's attributes and its <rect> children in order.
GenerateQRCodeSVG(qr, params) ==
  LET dark == ColorToHex(params.color)
      light == ColorToHex(params.bgcolor)
      g == SvgGeometry(qr, params)
      mods == DarkInScanOrder(qr)
      background == [x |-> 0, y |-> 0, width |-> g.actualSize, height |-> g.actualSize,
                     fill |-> <<"#">> \o light]
  IN [done |-> TRUE, g |-> g,
      width |-> g.actualSize, height |-> g.actualSize,
      viewBox |-> <<0, 0, g.actualSize, g.actualSize>>,
      rects |-> <<background>> \o [i \in 1..Len(mods) |-> SvgModuleRect(g, mods[i], dark)]]

\* ------------------------------------------------------------ generatePNG

\* PngGeometry with the canvas shrunk to the content and its margins.
PngGeometryFitted(qr, params) ==
  LET moduleCount == GetModuleCount(qr)
      size == params.size.width
      marginPx == MathMax(0, params.margin)
      totalModules == moduleCount + 2 * params.qzone
      available == MathMax(0, size - 2 * marginPx)
      moduleSize == MathMax(1, FloorDiv(available, totalModules))
      contentSize == moduleSize * totalModules
      leftover == MathMax(0, available - contentSize)
      actualSize == contentSize + 2 * marginPx
      offset == marginPx + FloorDiv(leftover, 2) + params.qzone * moduleSize
  IN [moduleCount |-> moduleCount, marginPx |-> marginPx, totalModules |-> totalModules,
      available |-> available, moduleSize |-> moduleSize, contentSize |-> contentSize,
      leftover |-> leftover, actualSize |-> actualSize, offset |-> offset]

\* PngGeometry with the odd pixel of the leftover before the symbol.
PngGeometryPaddedBefore(qr, params) ==
  LET moduleCount == GetModuleCount(qr)
      size == params.size.width
      marginPx == MathMax(0, params.margin)
      totalModules == moduleCount + 2 * params.qzone
      available == MathMax(0, size - 2 * marginPx)
      moduleSize == MathMax(1, FloorDiv(available, totalModules))
      contentSize == moduleSize * totalModules
      leftover == MathMax(0, available - contentSize)
      actualSize == size
      offset == marginPx + (leftover - FloorDiv(leftover, 2)) + params.qzone * moduleSize
  IN [moduleCount |-> moduleCount, marginPx |-> marginPx, totalModules |-> totalModules,
      available |-> available, moduleSize |-> moduleSize, contentSize |-> contentSize,
      leftover |-> leftover, actualSize |-> actualSize, offset |-> offset]

\* The locals of generatePNG before the bitmap is built.
PngGeometry(qr, params) ==
  LET moduleCount == GetModuleCount(qr)
      size == params.size.width
      marginPx == MathMax(0, params.margin)
      totalModules == moduleCount + 2 * params.qzone
      available == MathMax(0, size - 2 * marginPx)
      moduleSize == MathMax(1, FloorDiv(available, totalModules))
      contentSize == moduleSize * totalModules
      leftover == MathMax(0, available - contentSize)
      actualSize == size
      offset == marginPx + FloorDiv(leftover, 2) + params.qzone * moduleSize
  IN [moduleCount |-> moduleCount, marginPx |-> marginPx, totalModules |-> totalModules,
      available |-> available, moduleSize |-> moduleSize, contentSize |-> contentSize,
      leftover |-> leftover, actualSize |-> actualSize, offset |-> offset]

\* new Uint8Array(actualSize * actualSize * 4) after the background loop.
FillBackground(actualSize, bgcolor) ==
  [i \in 0..(actualSize * actualSize * 4 - 1) |->
     CASE i % 4 = 0 -> bgcolor.r
       [] i % 4 = 1 -> bgcolor.g
       [] i % 4 = 2 -> bgcolor.b
       [] OTHER -> 255]

\* PixelInCanvas without the test on the column.
PixelInCanvasRowsOnly(pixelX, pixelY, actualSize) == pixelY < actualSize

\* The bounds test guarding the four stores of one pixel.
PixelInCanvas(pixelX, pixelY, actualSize) == pixelX < actualSize /\ pixelY < actualSize

\* PixelIndex in column-major order.
PixelIndexTransposed(pixelX, pixelY, actualSize) == (pixelX * actualSize + pixelY) * 4

\* The index the four stores of one pixel start at.
PixelIndex(pixelX, pixelY, actualSize) == (pixelY * actualSize + pixelX) * 4

\* A store into a Uint8Array: an index outside the array is ignored.
Store(data, index, value) ==
  IF index \in DOMAIN data THEN [data EXCEPT ![index] = value] ELSE data

\* One iteration of the innermost loop. st = [data, stores]: the buffer and the
\* indices stored into so far, each with the pixel it was computed for.
DrawPixel(st, pixelX, pixelY, actualSize, color) ==
  IF PixelInCanvas(pixelX, pixelY, actualSize)
  THEN LET index == PixelIndex(pixelX, pixelY, actualSize)
       IN [data |-> Store(Store(Store(Store(st.data, index, color.r),
                                      index + 1, color.g),
                                index + 2, color.b),
                          index + 3, 255),
           stores |-> st.stores \cup {<<index, pixelX, pixelY>>}]
  ELSE st

\* The y and x loops of one dark module, iteration k of moduleSize * moduleSize on.
\* (The test on `next` makes TLC finish one iteration before it starts the next.)
RECURSIVE DrawModule(_, _, _, _, _, _, _)
DrawModule(st, k, startX, startY, moduleSize, actualSize, color) ==
  IF k >= moduleSize * moduleSize THEN st
  ELSE LET next == DrawPixel(st, startX + (k % moduleSize), startY + (k \div moduleSize),
                             actualSize, color)
       IN IF DOMAIN next = {"data", "stores"}
          THEN DrawModule(next, k + 1, startX, startY, moduleSize, actualSize, color)
          ELSE next

\* The row and col loops, from the i-th dark module of the scan on.
RECURSIVE DrawModules(_, _, _, _, _)
DrawModules(st, mods, i, g, color) ==
  IF i > Len(mods) THEN st
  ELSE LET next == DrawModule(st, 0,
                              g.offset + mods[i][2] * g.moduleSize,
                              g.offset + mods[i][1] * g.moduleSize,
                              g.moduleSize, g.actualSize, color)
       IN IF DOMAIN next = {"data", "stores"}
          THEN DrawModules(next, mods, i + 1, g, color)
          ELSE next

\* generatePNG up to the call of the encoder, which is handed the buffer and the
\* canvas side twice.
GeneratePNG(qr, params) ==
  LET g == PngGeometry(qr, params)
      st == DrawModules([data |-> FillBackground(g.actualSize, params.bgcolor), stores |-> {}],
                        DarkInScanOrder(qr), 1, g, params.color)
  IN [done |-> TRUE, g |-> g, imageData |-> st.data, stores |-> st.stores,
      width |-> g.actualSize, height |-> g.actualSize]

\* ---------------------------------------------------------- generateQRCode

\* The module matrix qrcode-generator makes of its input: which one is the
\* library's affair; here the corners and the centre of a version 1 symbol for
\* an input of even length, a cluster of neighbours for one of odd length.
MatrixOf(input) ==
  [moduleCount |-> 21,
   dark |-> IF Len(input.val) % 2 = 0
            THEN {<<0, 0>>, <<0, 20>>, <<20, 0>>, <<20, 20>>, <<10, 10>>}
            ELSE {<<0, 0>>, <<0, 1>>, <<1, 0>>, <<10, 19>>, <<10, 20>>}]

\* getErrorCorrectionLevel(ecc)
GetErrorCorrectionLevel(ecc) ==
  IF ecc \in {<<"L">>, <<"M">>, <<"Q">>, <<"H">>} THEN ecc ELSE <<"L">>

\* QR.default(0, level), addData(input) and make(): the matrix, or what the
\* library throws for an input it cannot encode; lib says which those are.
QRMake(lib, level, input) ==
  IF \/ input.type = "bytes" /\ input.val \in lib.unencodableBytes
     \/ input.type = "string" /\ input.val \in lib.unencodableText
  THEN [ok |-> FALSE, name |-> "Error", message |-> "thrown by qrcode-generator"]
  ELSE [ok |-> TRUE, qr |-> MatrixOf(input)]

\* generateQRCode(params): what its promise settles with, the image or the
\* error thrown. For ISO-8859-1 the library is given the low bytes of the code
\* units, otherwise the string.
GenerateQRCode(lib, p) ==
  LET convertedData == ConvertCharset(p.data, p.charsetSource, p.charsetTarget)
      bytes == [i \in 1..Len(convertedData) |-> CharCodeAt(convertedData[i]) % 256]
      input == IF p.charsetTarget = Latin1
               THEN [type |-> "bytes", val |-> bytes]
               ELSE [type |-> "string", val |-> convertedData]
      made == QRMake(lib, GetErrorCorrectionLevel(p.ecc), input)
  IN IF ~made.ok THEN made
     ELSE IF p.format = SVG
     THEN [ok |-> TRUE, kind |-> "svg", image |-> GenerateQRCodeSVG(made.qr, p)]
     ELSE [ok |-> TRUE, kind |-> "png", image |-> GeneratePNG(made.qr, p)]

\* ------------------------------------------------------------------- ETag

\* String(n) for an integer n >= 0.
RECURSIVE NumberToString(_)
NumberToString(n) ==
  IF n < 10 THEN <<LowerHexDigits[n + 1]>>
  ELSE NumberToString(n \div 10) \o <<LowerHexDigits[(n % 10) + 1]>>

\* The characters from..to of str as JSON.stringify writes them inside the
\* quotes, for a string without control characters or lone surrogates.
RECURSIVE JsonEscaped(_, _, _)
JsonEscaped(str, from, to) ==
  IF from > to THEN <<>>
  ELSE IF from = to
  THEN (IF str[from] \in {"\"", "\\"} THEN <<"\\", str[from]>> ELSE <<str[from]>>)
  ELSE LET mid == (from + to) \div 2
       IN JsonEscaped(str, from, mid) \o JsonEscaped(str, mid + 1, to)

\* JSON.stringify of a string
JsonString(str) == <<"\"">> \o JsonEscaped(str, 1, Len(str)) \o <<"\"">>

JsonColor(c) ==
  <<"{", "\"", "r", "\"", ":">> \o NumberToString(c.r)
    \o <<",", "\"", "g", "\"", ":">> \o NumberToString(c.g)
    \o <<",", "\"", "b", "\"", ":">> \o NumberToString(c.b) \o <<"}">>

\* JSON.stringify(norm)
NormStr(p) ==
  <<"{", "\"", "d", "a", "t", "a", "\"", ":">> \o JsonString(p.data)
    \o <<",", "\"", "s", "i", "z", "e", "\"", ":", "{", "\"", "w", "i", "d", "t", "h", "\"", ":">> \o NumberToString(p.size.width)
    \o <<",", "\"", "h", "e", "i", "g", "h", "t", "\"", ":">> \o NumberToString(p.size.height)
    \o <<"}", ",", "\"", "e", "c", "c", "\"", ":">> \o JsonString(p.ecc)
    \o <<",", "\"", "c", "o", "l", "o", "r", "\"", ":">> \o JsonColor(p.color)
    \o <<",", "\"", "b", "g", "c", "o", "l", "o", "r", "\"", ":">> \o JsonColor(p.bgcolor)
    \o <<",", "\"", "m", "a", "r", "g", "i", "n", "\"", ":">> \o NumberToString(p.margin)
    \o <<",", "\"", "q", "z", "o", "n", "e", "\"", ":">> \o NumberToString(p.qzone)
    \o <<",", "\"", "c", "h", "a", "r", "s", "e", "t", "S", "o", "u", "r", "c", "e", "\"", ":">> \o JsonString(p.charsetSource)
    \o <<",", "\"", "c", "h", "a", "r", "s", "e", "t", "T", "a", "r", "g", "e", "t", "\"", ":">> \o JsonString(p.charsetTarget)
    \o <<",", "\"", "f", "o", "r", "m", "a", "t", "\"", ":">> \o JsonString(p.format) \o <<"}">>

\* a ^ b for a, b in 0..65535.
RECURSIVE Xor16(_, _)
Xor16(a, b) ==
  IF a = 0 THEN b
  ELSE IF b = 0 THEN a
  ELSE 2 * Xor16(a \div 2, b \div 2) + (((a % 2) + (b % 2)) % 2)

\* A 32-bit word as its two 16-bit halves. 2166136261 is 0x811C9DC5.
FnvOffsetBasis == [hi |-> 33052, lo |-> 40389]

\* h ^= code; h = Math.imul(h, 16777619), where 16777619 = 2^24 + 403.
FnvStep(h, code) ==
  LET lo == Xor16(h.lo, code)
      low == lo * 403
  IN [hi |-> (h.hi * 403 + (low \div 65536) + (lo % 256) * 256) % 65536,
      lo |-> low % 65536]

\* The loop over characters from..to of normStr, h being the hash before them:
\* the first half of the range, then the second from the hash the first left.
RECURSIVE FnvLoop(_, _, _, _)
FnvLoop(h, str, from, to) ==
  IF from > to THEN h
  ELSE IF from = to
  THEN CHOOSE last \in {FnvStep(h, code) : code \in {CharCodeAt(str[from])}} : TRUE
  ELSE LET mid == (from + to) \div 2
       IN CHOOSE last \in {FnvLoop(half, str, mid + 1, to) :
                             half \in {FnvLoop(h, str, from, mid)}} : TRUE

\* n.toString(16) for n in 0..65535, four digits.
Hex4(n) ==
  <<LowerHexDigits[(n \div 4096) + 1], LowerHexDigits[((n \div 256) % 16) + 1],
    LowerHexDigits[((n \div 16) % 16) + 1], LowerHexDigits[(n % 16) + 1]>>

\* h.toString(16): h is a signed 32-bit integer after Math.imul, so a word with
\* its top bit set is written as a minus sign and the digits of its magnitude.
HashToString16(h) ==
  LET negative == h.hi >= 32768
      mag == IF ~negative THEN h
             ELSE IF h.lo = 0 THEN [hi |-> 65536 - h.hi, lo |-> 0]
             ELSE [hi |-> 65535 - h.hi, lo |-> 65536 - h.lo]
      digits == Hex4(mag.hi) \o Hex4(mag.lo)
      zeros == PrefixLen(SubSeq(digits, 1, 7), LAMBDA c : c = "0")
  IN (IF negative THEN <<"-">> ELSE <<>>) \o StrFrom(digits, zeros + 1)

\* 'W/"' + h.toString(16) + '"'
ETagOf(p) == <<"W", "/", "\"">> \o (LET normStr == NormStr(p)
   IN HashToString16(FnvLoop(FnvOffsetBasis, normStr, 1, Len(normStr)))) \o <<"\"">>

\* ----------------------------------------------------- handleQRCodeRequest

FormType == <<"a", "p", "p", "l", "i", "c", "a", "t", "i", "o", "n", "/", "x", "-", "w", "w", "w", "-", "f", "o", "r", "m", "-", "u", "r", "l", "e", "n", "c", "o", "d", "e", "d">>
JsonType == <<"a", "p", "p", "l", "i", "c", "a", "t", "i", "o", "n", "/", "j", "s", "o", "n">>

\* !params[key]: the key is not set, or is set to the empty string.
Falsy(p, key) == key \notin DOMAIN p \/ p[key] = <<>>

\* The loop over url.searchParams.entries(): each entry is assigned in turn.
SearchParams(entries) ==
  LET p[i \in 0..Len(entries)] ==
        IF i = 0 THEN NoParams ELSE (entries[i][1] :> entries[i][2]) @@ p[i - 1]
  IN p[Len(entries)]

\* The body's value is taken where the parameters hold nothing for the key.
TakeFormValue(p, key, value) == IF Falsy(p, key) THEN (key :> value) @@ p ELSE p

\* The loop over formData.entries().
MergeFormData(urlParams, entries) ==
  LET p[i \in 0..Len(entries)] ==
        IF i = 0 THEN urlParams ELSE TakeFormValue(p[i - 1], entries[i][1], entries[i][2])
  IN p[Len(entries)]

\* The loop over Object.entries(jsonData): only strings are taken.
MergeJson(urlParams, entries) ==
  LET p[i \in 0..Len(entries)] ==
        IF i = 0 THEN urlParams
        ELSE IF Falsy(p[i - 1], entries[i][1]) /\ entries[i][2].type = "string"
        THEN (entries[i][1] :> entries[i][2].val) @@ p[i - 1]
        ELSE p[i - 1]
  IN p[Len(entries)]

\* A catch block that answers every error alike.
CatchResponseGeneric(error) ==
  [done |-> TRUE, status |-> 500,
   body |-> [kind |-> "text", text |-> "Internal Server Error"],
   headers |-> ("Content-Type" :> "text/plain") @@ ("Access-Control-Allow-Origin" :> "*")]

\* A catch block that answers every error with its own message and a 400.
CatchResponseDescriptive(error) ==
  [done |-> TRUE, status |-> 400,
   body |-> [kind |-> "text", text |-> error.message],
   headers |-> ("Content-Type" :> "text/plain") @@ ("Access-Control-Allow-Origin" :> "*")]

\* The catch block: the Response for what was thrown.
CatchResponse(error) ==
  IF error.name = "QRParamError"
  THEN [done |-> TRUE, status |-> error.statusCode,
        body |-> [kind |-> "text", text |-> error.message],
        headers |-> ("Content-Type" :> "text/plain") @@ ("Access-Control-Allow-Origin" :> "*")]
  ELSE [done |-> TRUE, status |-> 500,
        body |-> [kind |-> "text", text |-> "Internal Server Error"],
        headers |-> ("Content-Type" :> "text/plain") @@ ("Access-Control-Allow-Origin" :> "*")]

CorsAndCache ==
  ("Access-Control-Allow-Origin" :> "*")
    @@ ("Access-Control-Allow-Methods" :> "GET, POST, OPTIONS")
    @@ ("Access-Control-Allow-Headers" :> "Content-Type")
    @@ ("Cache-Control" :> "public, max-age=3600")

\* A handler that does not look at If-None-Match.
ImageResponseUnconditional(req, parsedParams, image, etag) ==
  [done |-> TRUE, status |-> 200,
   body |-> [kind |-> image.kind, image |-> image.image],
   headers |-> ("Content-Type" :> GetMimeType(parsedParams.format))
                 @@ CorsAndCache @@ ("ETag" :> etag)
                 @@ ("Content-Length" :> "byteLength")]

\* The Response once generateQRCode's promise is fulfilled with the image:
\* 304 without a body when If-None-Match is the ETag, else 200 with the image.
\* Content-Length is the byte length of the encoded image, which is not modelled.
ImageResponse(req, parsedParams, image, etag) ==
  IF req.ifNoneMatch # Absent /\ req.ifNoneMatch # <<>> /\ req.ifNoneMatch = etag
  THEN [done |-> TRUE, status |-> 304, body |-> [kind |-> "null"],
        headers |-> ("ETag" :> etag) @@ CorsAndCache]
  ELSE [done |-> TRUE, status |-> 200,
        body |-> [kind |-> image.kind, image |-> image.image],
        headers |-> ("Content-Type" :> GetMimeType(parsedParams.format))
                      @@ CorsAndCache @@ ("ETag" :> etag)
                      @@ ("Content-Length" :> "byteLength")]

\* --------------------------------------------------- renderer test inputs

\* Module matrices of a version 1 symbol (21 modules a side): the corners and
\* the centre; a cluster of neighbours; the top-left finder pattern. And the
\* corners and the centre of a version 2 symbol (25 modules a side).
CornerModules(n) ==
  {<<0, 0>>, <<0, n - 1>>, <<n - 1, 0>>, <<n - 1, n - 1>>, <<n \div 2, n \div 2>>}

ClusterModules(n) == {<<0, 0>>, <<0, 1>>, <<1, 0>>, <<n \div 2, n - 2>>, <<n \div 2, n - 1>>}

FinderModules ==
  {rc \in (0..6) \X (0..6) :
     \/ rc[1] \in {0, 6} \/ rc[2] \in {0, 6}
     \/ (rc[1] \in 2..4 /\ rc[2] \in 2..4)}

Matrices ==
  {[moduleCount |-> 21, dark |-> d] : d \in {CornerModules(21), ClusterModules(21), FinderModules}}
  \cup {[moduleCount |-> 25, dark |-> CornerModules(25)]}

Black == [r |-> 0, g |-> 0, b |-> 0]
White == [r |-> 255, g |-> 255, b |-> 255]

\* Foreground and background: two unrelated colours, and twice the same.
ColorPairs ==
  {<<[r |-> 255, g |-> 0, b |-> 16], [r |-> 0, g |-> 128, b |-> 255]>>,
   <<White, White>>}

\* A ParsedQRParams as the renderers read it.
RenderParams(side, margin, qzone, colors, format) ==
  [data |-> <<"H", "i">>, size |-> [width |-> side, height |-> side],
   charsetSource |-> UTF8, charsetTarget |-> UTF8, ecc |-> <<"L">>,
   color |-> colors[1], bgcolor |-> colors[2],
   margin |-> margin, qzone |-> qzone, format |-> format]

\* Small canvases with every kind of margin and quiet zone.
RenderInputs ==
  {RenderParams(side, margin, qzone, colors, PNG) :
     side \in MinSize..MaxRenderSize, margin \in {0, 1, MaxMargin},
     qzone \in {0, 4, MaxQzone}, colors \in ColorPairs}

\* The parameters of a request that names only its data: 200x200, margin 1, no
\* quiet zone, black on white.
DefaultRenderParams == RenderParams(DefaultSide, DefaultMargin, DefaultQzone, <<Black, White>>, PNG)

NotRun == [done |-> FALSE]

\* The variables of the parts a specification leaves alone.
NoRender == rqr = <<>> /\ rparams = <<>> /\ pngOut = NotRun /\ svgOut = NotRun
NoColor == colorArg = <<>> /\ colorOut = NotRun
NoValidate == rawArg = <<>> /\ parseOut = NotRun
NoCharset == charsetArg = <<>> /\ charsetCalls = <<>>

NoBody == [kind |-> "none"]
NoRequest ==
  [method |-> "(none)", query |-> <<>>, contentType |-> Absent, body |-> NoBody,
   ifNoneMatch |-> Absent]
NoLibrary == [unencodableText |-> {}, unencodableBytes |-> {}]

\* No invocation of the handler is under way.
Idle ==
  /\ pc = "idle" /\ request = NoRequest /\ reqParams = NoParams
  /\ validated = NotRun /\ promise = NotRun /\ response = NotRun

NoHandler ==
  /\ qrlib = NoLibrary /\ Idle
  /\ inbox = <<>> /\ taken = 0 /\ parked = <<>> /\ served = <<>>

InitRender ==
  /\ NoColor /\ NoValidate /\ NoHandler /\ NoCharset
  /\ \/ rqr \in Matrices /\ rparams \in RenderInputs
     \/ rqr = [moduleCount |-> 21, dark |-> CornerModules(21)] /\ rparams = DefaultRenderParams
  /\ pngOut = NotRun
  /\ svgOut = NotRun

\* generatePNG(qr, params)
RenderPNG ==
  /\ ~pngOut.done
  /\ pngOut' = GeneratePNG(rqr, rparams)
  /\ UNCHANGED <<rqr, rparams, svgOut, colorVars, validateVars, handlerVars, charsetVars>>

\* generateQRCodeSVG(qr, params)
RenderSVG ==
  /\ ~svgOut.done
  /\ svgOut' = GenerateQRCodeSVG(rqr, rparams)
  /\ UNCHANGED <<rqr, rparams, pngOut, colorVars, validateVars, handlerVars, charsetVars>>

NextRender == RenderPNG \/ RenderSVG

SpecRender == InitRender /\ [][NextRender]_vars

\* ---------------------------------------------------- parseColor's inputs

\* s1 - s2 - ... for a sequence of strings.
RECURSIVE JoinDash(_)
JoinDash(parts) ==
  IF Len(parts) = 1 THEN parts[1]
  ELSE parts[1] \o <<"-">> \o JoinDash(Tail(parts))

ColorAlphabet == {"0", "9", "f", "g", "-", "#"}

\* Two characters of a six-character colour: hex digits, a hex digit before or
\* after another character, and what parseInt reads as a prefix or a blank.
HexPairs ==
  {<<"f", "f">>, <<"0", "a">>, <<"F", "0">>, <<"f", "g">>, <<"g", "0">>, <<" ", "f">>, <<"0", "x">>}

\* A component of a decimal colour: in range, out of range, not a number,
\* missing, and a number with something before or after it.
DecimalParts ==
  {<<"0">>, <<"1", "6">>, <<"2", "5", "5">>, <<"2", "5", "6">>, <<"5", "g">>, <<"g">>,
   <<>>, <<" ", "7">>, <<"+", "7">>, <<"1", ".", "5">>}

ColorStrings ==
  UNION {[1..n -> ColorAlphabet] : n \in 0..MaxColorLen}
  \cup {p \o q \o r : p \in HexPairs, q \in HexPairs, r \in HexPairs}
  \cup {<<"#">> \o p \o q \o r : p \in HexPairs, q \in HexPairs, r \in HexPairs}
  \cup {JoinDash(parts) : parts \in [1..3 -> DecimalParts]}
  \cup {JoinDash(parts) : parts \in [1..2 -> {<<"0">>, <<"2", "5", "5">>}]}
  \cup {JoinDash(parts) : parts \in [1..4 -> {<<"0">>, <<"2", "5", "5">>}]}

InitColor ==
  /\ NoRender /\ NoValidate /\ NoHandler /\ NoCharset
  /\ colorArg \in ColorStrings
  /\ colorOut = NotRun

\* parseColor(colorStr), returning or throwing.
CallParseColor ==
  /\ ~colorOut.done
  /\ colorOut' = [done |-> TRUE, res |-> ParseColor(colorArg)]
  /\ UNCHANGED <<colorArg, renderVars, validateVars, handlerVars, charsetVars>>

NextColor == CallParseColor

SpecColor == InitColor /\ [][NextColor]_vars

\* ---------------------------------------- validateAndParseParams' inputs

\* In a set of values for a key: the key is not given.
\* The raw parameters with the key given as the value, or not given.
With(params, key, value) == IF value = Absent THEN params ELSE (key :> value) @@ params

HiData == ("data" :> <<"h", "i">>)

DataValues ==
  {Absent, <<>>, <<"h", "i">>}
  \cup {[i \in 1..n |-> "a"] : n \in (MaxDataLength - 1)..(MaxDataLength + MaxDataExcess)}

FormatValues == {Absent, <<>>, <<"p", "n", "g">>, <<"s", "v", "g">>, <<"g", "i", "f">>, <<"P", "N", "G">>}

SizeValues ==
  {Absent, <<>>, <<"9", "x", "9">>, <<"1", "0", "x", "1", "0">>,
   <<"1", "0", "0", "0", "x", "1", "0", "0", "0">>,
   <<"1", "0", "0", "1", "x", "1", "0", "0", "1">>,
   <<"1", "0", "0", "0", "0", "0", "0", "x", "1", "0", "0", "0", "0", "0", "0">>,
   <<"1", "0", "0", "0", "0", "0", "1", "x", "1", "0", "0", "0", "0", "0", "1">>,
   <<"2", "0", "0", "x", "1", "0", "0">>, <<"a", "b", "c">>, <<"1", "0">>,
   <<"1", "0", "x", "1", "0", "x", "1", "0">>, <<"1", "2", "x", "1", "2", "a", "b", "c">>,
   <<"-", "1", "0", "x", "-", "1", "0">>, <<"x">>}

CharsetValues == {Absent, <<>>, <<"U", "T", "F", "-", "8">>,
                  <<"I", "S", "O", "-", "8", "8", "5", "9", "-", "1">>, <<"l", "a", "t", "i", "n", "1">>}

EccValues == {Absent, <<>>, <<"L">>, <<"M">>, <<"Q">>, <<"H">>, <<"l">>, <<"L", "M">>}

MarginValues ==
  {Absent, <<>>, <<"0">>, <<"1">>, <<"5", "0">>, <<"5", "1">>, <<"-", "1">>,
   <<"a", "b", "c">>, <<"5", "x">>, <<"1", ".", "5">>, <<" ", "7">>,
   <<"5", "0", ".", "9">>}

QzoneValues == {Absent, <<>>, <<"0">>, <<"4">>, <<"1", "0", "0">>, <<"1", "0", "1">>, <<"-", "1">>,
                <<"q">>}

ColorValues ==
  {Absent, <<>>, <<"f", "0", "0">>, <<"2", "5", "5", "-", "0", "-", "0">>,
   <<"f", "g", "0", "0", "0", "0">>, <<"2", "5", "6", "-", "0", "-", "0">>,
   <<"z", "z", "z">>}

\* Raw parameters: each group of keys with every combination of its values,
\* the other keys not given.
RawInputs ==
  {With(NoParams, "data", d) : d \in DataValues}
  \cup {With(With(HiData, "format", f), "size", s) : f \in FormatValues, s \in SizeValues}
  \cup {With(With(HiData, "charset-source", a), "charset-target", b) :
          a \in CharsetValues, b \in CharsetValues}
  \cup {With(HiData, "ecc", l) : l \in EccValues}
  \cup {With(With(HiData, "margin", m), "qzone", q) : m \in MarginValues, q \in QzoneValues}
  \cup {With(With(HiData, "color", c), "bgcolor", b) : c \in ColorValues, b \in ColorValues}

InitValidate ==
  /\ NoRender /\ NoColor /\ NoHandler /\ NoCharset
  /\ rawArg \in RawInputs
  /\ parseOut = NotRun

\* validateAndParseParams(params), returning or throwing.
CallValidate ==
  /\ ~parseOut.done
  /\ parseOut' = [done |-> TRUE, res |-> ValidateAndParseParams(rawArg)]
  /\ UNCHANGED <<rawArg, renderVars, colorVars, handlerVars, charsetVars>>

NextValidate == CallValidate

SpecValidate == InitValidate /\ [][NextValidate]_vars

\* ------------------------------------------------- convertCharset's inputs

Charsets == {UTF8, Latin1}

\* ASCII, a question mark as such, Latin-1 beyond ASCII and its last character,
\* the first character beyond Latin-1, one far beyond, half a surrogate pair.
CharsetAlphabet == {"a", "?", EAcute, YDiaeresis, AMacron, Euro, HighSurrogate}

Texts == UNION {[1..n -> CharsetAlphabet] : n \in 0..MaxTextLen}

InitCharset ==
  /\ NoRender /\ NoColor /\ NoValidate /\ NoHandler
  /\ charsetArg \in Texts
  /\ charsetCalls = <<>>

\* convertCharset(text, from, to) on the text, or on what the call before returned.
CallConvertCharset ==
  /\ Len(charsetCalls) < MaxConversions
  /\ \E from \in Charsets, to \in Charsets :
       LET text == IF charsetCalls = <<>> THEN charsetArg
                   ELSE charsetCalls[Len(charsetCalls)].res
       IN charsetCalls' = Append(charsetCalls,
                                 [text |-> text, from |-> from, to |-> to,
                                  res |-> ConvertCharset(text, from, to)])
  /\ UNCHANGED <<charsetArg, renderVars, colorVars, validateVars, handlerVars>>

NextCharset == CallConvertCharset

SpecCharset == InitCharset /\ [][NextCharset]_vars

\* ---------------------------------------------- handleQRCodeRequest's inputs

Hi == <<"h", "i">>
HiEuro == <<"h", Euro>>
Size10 == <<"1", "0", "x", "1", "0">>
Size12 == <<"1", "2", "x", "1", "2">>
TextPlain == <<"t", "e", "x", "t", "/", "p", "l", "a", "i", "n">>

\* The longest text validation lets through, of characters of three UTF-8 bytes.
LongText == [i \in 1..MaxDataLength |-> Euro]

\* What the library is given for data=h<euro sign> with charset-target=ISO-8859-1.
Latin1Bytes == <<104, 63>>

\* The libraries: each may or may not throw for the long text, and for an array
\* of bytes in place of a string.
QRLibraries == [unencodableText : SUBSET {LongText}, unencodableBytes : SUBSET {Latin1Bytes}]

\* The entry of a query string or a form body for the key, if it is given.
Entry(key, value) == IF value = Absent THEN <<>> ELSE <<<<key, value>>>>

\* The values of a JSON object's members: a string, the number 2, and no member.
JsonStr(v) == [type |-> "string", val |-> v]
JsonTwo == [type |-> "number", val |-> <<"2">>]
JsonAbsent == [type |-> "undefined", val |-> <<>>]
JsonEntry(key, value) == IF value = JsonAbsent THEN <<>> ELSE <<<<key, value>>>>

Get(query, ifNoneMatch) ==
  [method |-> "GET", query |-> query, contentType |-> Absent, body |-> NoBody,
   ifNoneMatch |-> ifNoneMatch]

Post(query, contentType, body) ==
  [method |-> "POST", query |-> query, contentType |-> contentType, body |-> body,
   ifNoneMatch |-> Absent]

\* The keys given in the query string, in the body or in both, the values each
\* is given, and the rest of the query string.
MergeKeys == {"data", "size", "format", "margin"}

KeyValues(key) ==
  CASE key = "data" -> {Hi, HiEuro}
    [] key = "size" -> {Size10, Size12}
    [] key = "format" -> {PNG, SVG}
    [] key = "margin" -> {<<"0">>, <<"2">>}

BaseQuery(key) ==
  CASE key = "data" -> <<<<"size", Size10>>>>
    [] key = "size" -> <<<<"data", Hi>>, <<"format", SVG>>>>
    [] key = "format" -> <<<<"data", Hi>>, <<"size", Size10>>>>
    [] key = "margin" -> <<<<"data", Hi>>, <<"size", Size12>>>>

GivenValues(key) == {Absent, <<>>} \cup KeyValues(key)

GetRequests ==
  UNION {{Get(BaseQuery(k) \o Entry(k, g), Absent) : g \in GivenValues(k)} : k \in MergeKeys}

FormRequests ==
  UNION {{Post(BaseQuery(k) \o Entry(k, g), FormType,
               [kind |-> "form", entries |-> Entry(k, b)]) :
            g \in GivenValues(k), b \in GivenValues(k)} : k \in MergeKeys}

JsonRequests ==
  UNION {{Post(BaseQuery(k) \o Entry(k, g), JsonType \o <<";", " ", "c", "h", "a", "r", "s", "e", "t", "=", "u", "t", "f", "-", "8">>,
               [kind |-> "json", entries |-> JsonEntry(k, b)]) :
            g \in GivenValues(k),
            b \in {JsonAbsent, JsonTwo} \cup {JsonStr(v) : v \in {<<>>} \cup KeyValues(k)}} :
         k \in MergeKeys}

\* A key given twice, a body the handler does not read, a body that is not JSON.
OtherRequests ==
  {Get(<<<<"size", Size10>>, <<"data", Hi>>, <<"data", HiEuro>>>>, Absent),
   Post(BaseQuery("format"), JsonType, [kind |-> "malformed"])}
  \cup {Post(BaseQuery("data"), ct, [kind |-> "form", entries |-> <<<<"data", Hi>>>>]) :
          ct \in {Absent, TextPlain}}
  \cup {Post(BaseQuery("format") \o Entry("format", SVG), TextPlain,
             [kind |-> "form", entries |-> <<<<"format", PNG>>>>])}

\* Parameters that fail validation, one for each check after the data's.
InvalidRequests ==
  {Get(BaseQuery("format") \o <<<<kv[1], kv[2]>>>>, Absent) :
     kv \in {<<"size", <<"9", "x", "9">>>>, <<"format", <<"g", "i", "f">>>>,
             <<"charset-source", <<"l", "a", "t", "i", "n", "1">>>>,
             <<"charset-target", <<"a", "s", "c", "i", "i">>>>,
             <<"ecc", <<"l">>>>, <<"color", <<"z", "z", "z">>>>,
             <<"bgcolor", <<"2", "5", "6", "-", "0", "-", "0">>>>,
             <<"margin", <<"5", "1">>>>, <<"qzone", <<"-", "1">>>>}}
  \cup {Get(<<<<"data", LongText \o <<"a">>>>>>, Absent)}

\* Data the library may be unable to encode.
HardRequests ==
  {Get(<<<<"data", LongText>>, <<"size", Size10>>, <<"ecc", <<"H">>>>>>, Absent),
   Get(<<<<"data", HiEuro>>, <<"size", Size10>>, <<"charset-target", Latin1>>>>, Absent),
   Get(<<<<"data", HiEuro>>, <<"format", SVG>>, <<"charset-target", Latin1>>>>, Absent)}

\* Revalidations: If-None-Match with the ETag the worker gives the image of
\* data=hi&size=10x10, with the one it gives data=hi&format=svg, and empty.
RevalidatedQueries == {BaseQuery("format"), BaseQuery("margin"), BaseQuery("size")}
KnownETag == <<"W", "/", "\"", "-", "3", "4", "7", "4", "2", "8", "a", "0", "\"">>
SvgETag == <<"W", "/", "\"", "-", "2", "5", "9", "a", "6", "9", "8", "9", "\"">>
ConditionalRequests ==
  {Get(query, inm) : query \in RevalidatedQueries, inm \in {KnownETag, SvgETag, <<>>}}

Requests ==
  GetRequests \cup FormRequests \cup JsonRequests \cup OtherRequests
    \cup InvalidRequests \cup HardRequests \cup ConditionalRequests

\* Requests that are under way together: a GET, a form and a JSON body that
\* give the format, a form body for a query string with an empty format, a body
\* that is not JSON, parameters that fail validation, data the library may be
\* unable to encode, a revalidation.
ConcurrentRequests ==
  {Get(BaseQuery("format"), Absent),
   Get(BaseQuery("format"), KnownETag),
   Get(BaseQuery("format") \o <<<<"size", <<"9", "x", "9">>>>>>, Absent),
   Get(<<<<"data", HiEuro>>, <<"size", Size10>>, <<"charset-target", Latin1>>>>, Absent),
   Post(BaseQuery("format"), FormType, [kind |-> "form", entries |-> <<<<"format", SVG>>>>]),
   Post(BaseQuery("format") \o <<<<"format", <<>>>>>>, FormType,
        [kind |-> "form", entries |-> <<<<"format", SVG>>>>]),
   Post(BaseQuery("size"), JsonType, [kind |-> "json", entries |-> <<<<"size", JsonStr(Size12)>>>>]),
   Post(BaseQuery("format"), JsonType, [kind |-> "malformed"])}

\* What a client that keeps the answers asks, and asks again with the ETag of
\* an answer as If-None-Match: the image of
\* data=hi&size=10x10 with the format left out, given as png in a form,
\* in JSON, every parameter spelt out in the query string, with another method;
\* and another image.
Revalidations ==
  {Get(BaseQuery("format"), Absent),
   Post(BaseQuery("format"), FormType, [kind |-> "form", entries |-> <<<<"format", PNG>>>>]),
   Post(BaseQuery("format"), JsonType, [kind |-> "json", entries |-> <<<<"format", JsonStr(PNG)>>>>]),
   Get(<<<<"data", Hi>>, <<"size", <<"0", "1", "0", "x", "1", "0">>>>, <<"margin", <<"1">>>>,
         <<"qzone", <<"0">>>>, <<"ecc", <<"L">>>>, <<"color", <<"0", "0", "0">>>>,
         <<"bgcolor", <<"#", "F", "F", "F", "F", "F", "F">>>>,
         <<"charset-source", UTF8>>, <<"charset-target", UTF8>>, <<"format", PNG>>>>, Absent),
   [Get(BaseQuery("format"), Absent) EXCEPT !.method = "HEAD"],
   Get(BaseQuery("format") \o <<<<"format", SVG>>>>, Absent)}

\* What the worker is sent to begin with: one request, or two.
Arrivals ==
  {<<r>> : r \in Requests} \cup {<<r1, r2>> : r1 \in ConcurrentRequests, r2 \in ConcurrentRequests}

Init ==
  /\ NoRender /\ NoColor /\ NoValidate /\ NoCharset
  /\ qrlib \in QRLibraries
  /\ inbox \in Arrivals
  /\ taken = 0
  /\ parked = <<>>
  /\ served = <<>>
  /\ Idle

\* Lines 70-78: validateAndParseParams, and when it returns the call of
\* generateQRCode, which runs to its end and leaves its promise to be awaited;
\* when it throws, the catch block.
ValidateAndGenerate(p) ==
  \E parsedParams \in {ValidateAndParseParams(p)} :
     /\ reqParams' = p
     /\ validated' = [done |-> TRUE, res |-> parsedParams]
     /\ IF parsedParams.ok
        THEN /\ promise' = [done |-> TRUE, res |-> GenerateQRCode(qrlib, parsedParams)]
             /\ response' = NotRun
             /\ pc' = "generate"
        ELSE /\ promise' = NotRun
             /\ response' = CatchResponse(parsedParams)
             /\ pc' = "done"

\* handleQRCodeRequest(request), invoked for the next request when no
\* invocation is running, up to its first await: the parameters of the query
\* string, then the body's promise for a POST of a form or of JSON, otherwise
\* validation and generation.
Receive ==
  /\ pc = "idle"
  /\ Len(parked) < MaxInFlight
  /\ taken < Len(inbox)
  /\ taken' = taken + 1
  /\ \E req \in {inbox[taken + 1]} :
       LET urlParams == SearchParams(req.query)
           isPost == req.method = "POST" /\ req.contentType # Absent
       IN /\ request' = req
          /\ IF isPost /\ IncludesStr(req.contentType, FormType)
             THEN /\ pc' = "formData" /\ reqParams' = urlParams
                  /\ UNCHANGED <<validated, promise, response>>
             ELSE IF isPost /\ IncludesStr(req.contentType, JsonType)
             THEN /\ pc' = "json" /\ reqParams' = urlParams
                  /\ UNCHANGED <<validated, promise, response>>
             ELSE ValidateAndGenerate(urlParams)
  /\ UNCHANGED <<qrlib, inbox, parked, served, renderVars, colorVars, validateVars, charsetVars>>

\* await request.formData() is fulfilled: the merge, validation and generation.
FormDataSettled ==
  /\ pc = "formData"
  /\ ValidateAndGenerate(MergeFormData(reqParams, request.body.entries))
  /\ UNCHANGED <<qrlib, inbox, taken, parked, served, request,
                 renderVars, colorVars, validateVars, charsetVars>>

\* await request.json() is settled: rejected for a body that is not JSON, which
\* the catch block answers; else the merge, validation and generation.
JsonSettled ==
  /\ pc = "json"
  /\ IF request.body.kind = "malformed"
     THEN /\ response' = CatchResponse([ok |-> FALSE, name |-> "SyntaxError",
                                        message |-> "Unexpected token"])
          /\ pc' = "done"
          /\ UNCHANGED <<reqParams, validated, promise>>
     ELSE ValidateAndGenerate(MergeJson(reqParams, request.body.entries))
  /\ UNCHANGED <<qrlib, inbox, taken, parked, served, request,
                 renderVars, colorVars, validateVars, charsetVars>>

\* await generateQRCode(parsedParams) is settled: rejected with what the library
\* threw, which the catch block answers; else the ETag and the Response.
GenerateSettled ==
  /\ pc = "generate"
  /\ response' = IF promise.res.ok
                 THEN ImageResponse(request, validated.res, promise.res,
                                    ETagOf(validated.res))
                 ELSE CatchResponse(promise.res)
  /\ pc' = "done"
  /\ UNCHANGED <<qrlib, inbox, taken, parked, served, request, reqParams, validated, promise,
                 renderVars, colorVars, validateVars, charsetVars>>

\* The ETag header of a Response, if it has one.
ETagHeader(resp) == IF "ETag" \in DOMAIN resp.headers THEN resp.headers["ETag"] ELSE Absent

\* The Response is handed to the runtime, which sends it to the client, and the
\* invocation is over.
Respond ==
  /\ pc = "done"
  /\ served' = Append(served, [request |-> request, validated |-> validated,
                               status |-> response.status, etag |-> ETagHeader(response)])
  /\ pc' = "idle" /\ request' = NoRequest /\ reqParams' = NoParams
  /\ validated' = NotRun /\ promise' = NotRun /\ response' = NotRun
  /\ UNCHANGED <<qrlib, inbox, taken, parked, renderVars, colorVars, validateVars, charsetVars>>

\* The locals of the invocation that is running.
Frame ==
  [pc |-> pc, request |-> request, reqParams |-> reqParams,
   validated |-> validated, promise |-> promise]

\* Were params an object of the module, the invocation that runs meanwhile would
\* set it anew (line 40).
ParkResettingParams(frame) == [frame EXCEPT !.reqParams = NoParams]

\* What an invocation finds of its locals when it goes on after an await:
\* params and the others are locals of the call (lines 37-79), so what it left.
Park(frame) == frame

\* At an await the invocation gives way: the runtime is free to invoke the
\* handler for another request or to go on with an invocation that waits.
Yield ==
  /\ pc \in {"formData", "json", "generate"}
  /\ Len(parked) < MaxInFlight
  /\ parked' = Append(parked, Park(Frame))
  /\ pc' = "idle" /\ request' = NoRequest /\ reqParams' = NoParams
  /\ validated' = NotRun /\ promise' = NotRun /\ response' = NotRun
  /\ UNCHANGED <<qrlib, inbox, taken, served, renderVars, colorVars, validateVars, charsetVars>>

\* An invocation that waits is the one to go on.
Resume ==
  /\ pc = "idle"
  /\ \E j \in 1..Len(parked) :
       /\ pc' = parked[j].pc /\ request' = parked[j].request
       /\ reqParams' = parked[j].reqParams
       /\ validated' = parked[j].validated /\ promise' = parked[j].promise
       /\ parked' = SubSeq(parked, 1, j - 1) \o SubSeq(parked, j + 1, Len(parked))
  /\ UNCHANGED <<qrlib, inbox, taken, served, response,
                 renderVars, colorVars, validateVars, charsetVars>>

\* The request without its If-None-Match.
Unconditional(req) == [req EXCEPT !.ifNoneMatch = Absent]

\* The client that keeps the answers asks again, with the ETag of a 200 it was
\* sent as If-None-Match.
Revalidate ==
  /\ Len(inbox) < MaxRequests
  /\ \A i \in 1..Len(inbox) : Unconditional(inbox[i]) \in Revalidations
  /\ \E k \in 1..Len(served), req \in Revalidations :
       /\ served[k].status = 200
       /\ inbox' = Append(inbox, [req EXCEPT !.ifNoneMatch = served[k].etag])
  /\ UNCHANGED <<qrlib, taken, parked, served, pc, request, reqParams, validated, promise,
                 response, renderVars, colorVars, validateVars, charsetVars>>

Next ==
  \/ Receive \/ FormDataSettled \/ JsonSettled \/ GenerateSettled \/ Respond
  \/ Yield \/ Resume \/ Revalidate

Spec == Init /\ [][Next]_vars

\* ------------------------------------------------ the renderers' contract

\* The Geometry of the specification's data model.
RefGeometry(moduleCount, targetSize, marginPx, quietZoneModules) ==
  LET totalModules == moduleCount + 2 * quietZoneModules
      availablePx == IF targetSize - 2 * marginPx > 0 THEN targetSize - 2 * marginPx ELSE 0
      moduleSizePx == IF availablePx \div totalModules > 1 THEN availablePx \div totalModules ELSE 1
      contentPx == moduleSizePx * totalModules
      leftoverPx == IF availablePx - contentPx > 0 THEN availablePx - contentPx ELSE 0
  IN [totalModules |-> totalModules, availablePx |-> availablePx,
      moduleSizePx |-> moduleSizePx, contentPx |-> contentPx, leftoverPx |-> leftoverPx,
      offsetPx |-> marginPx + (leftoverPx \div 2) + quietZoneModules * moduleSizePx]

TargetSize == rparams.size.width

Ref == RefGeometry(rqr.moduleCount, TargetSize, rparams.margin, rparams.qzone)

\* The canvas pixels inside the square of some dark module.
CoveredPixels ==
  LET lo(m) == Ref.offsetPx + m * Ref.moduleSizePx
  IN UNION {{xy \in (lo(rc[2])..(lo(rc[2] + 1) - 1)) \X (lo(rc[1])..(lo(rc[1] + 1) - 1)) :
               xy[1] < TargetSize /\ xy[2] < TargetSize} : rc \in rqr.dark}

Canvas == (0..(TargetSize - 1)) \X (0..(TargetSize - 1))

\* The four bytes of pixel (x, y) in the raster.
PixelAt(xy) ==
  LET i == (xy[2] * TargetSize + xy[1]) * 4
  IN <<pngOut.imageData[i], pngOut.imageData[i + 1], pngOut.imageData[i + 2],
       pngOut.imageData[i + 3]>>

Opaque(color) == <<color.r, color.g, color.b, 255>>

C2_PixelsFollowModules ==
  pngOut.done =>
    /\ \A xy \in CoveredPixels : PixelAt(xy) = Opaque(rparams.color)
    /\ \A xy \in Canvas \ CoveredPixels : PixelAt(xy) = Opaque(rparams.bgcolor)

\* The raster of a request with some pixels covered and some not.
C2_Witness ==
  /\ pngOut.done
  /\ CoveredPixels # {}
  /\ Canvas \ CoveredPixels # {}
  /\ rparams.color # rparams.bgcolor

\* C2 as stated: a pixel has the foreground colour if and only if it is inside
\* the square of a dark module, otherwise it has the background colour, and
\* every pixel is opaque.
C2_AsStated ==
  pngOut.done =>
    \A xy \in Canvas :
      /\ (PixelAt(xy)[1] = rparams.color.r /\ PixelAt(xy)[2] = rparams.color.g
            /\ PixelAt(xy)[3] = rparams.color.b) <=> xy \in CoveredPixels
      /\ xy \notin CoveredPixels => PixelAt(xy) = Opaque(rparams.bgcolor)
      /\ PixelAt(xy)[4] = 255

\* The place of a dark module in the row-major scan of the dark modules.
ScanRank(rc) ==
  Cardinality({d \in rqr.dark : d[1] < rc[1] \/ (d[1] = rc[1] /\ d[2] < rc[2])}) + 1

\* C3: both renderers compute the same module size and offset, and the vector
\* document is the full-canvas background rectangle followed, in row-major
\* order, by one rectangle per dark module, whose origin and side are those of
\* the square the raster renderer fills for that module.
C3_VectorMatchesRaster ==
  (pngOut.done /\ svgOut.done) =>
    /\ svgOut.g.moduleSize = pngOut.g.moduleSize
    /\ svgOut.g.offset = pngOut.g.offset
    /\ Len(svgOut.rects) = 1 + Cardinality(rqr.dark)
    /\ LET bg == svgOut.rects[1]
       IN bg.x = 0 /\ bg.y = 0 /\ bg.width = TargetSize /\ bg.height = TargetSize
    /\ \A rc \in rqr.dark :
         LET rect == svgOut.rects[1 + ScanRank(rc)]
         IN /\ rect.x = pngOut.g.offset + rc[2] * pngOut.g.moduleSize
            /\ rect.y = pngOut.g.offset + rc[1] * pngOut.g.moduleSize
            /\ rect.width = pngOut.g.moduleSize
            /\ rect.height = pngOut.g.moduleSize

\* Both renderers ran on a matrix with dark modules in several rows and columns.
C3_Witness ==
  /\ pngOut.done /\ svgOut.done
  /\ Len(svgOut.rects) > 5
  /\ \E a, b \in rqr.dark : a[1] < b[1] /\ a[2] > b[2]
  /\ pngOut.g.moduleSize > 1

\* The documented scenario: moduleCount 21, targetSize 200, margin 1, no quiet zone.
Scenario ==
  /\ rqr.moduleCount = 21 /\ TargetSize = 200
  /\ rparams.margin = 1 /\ rparams.qzone = 0

SameGeometry(g) ==
  /\ g.totalModules = Ref.totalModules
  /\ g.available = Ref.availablePx
  /\ g.moduleSize = Ref.moduleSizePx
  /\ g.contentSize = Ref.contentPx
  /\ g.leftover = Ref.leftoverPx
  /\ g.offset = Ref.offsetPx

\* C4: the geometry each renderer computes is the reference geometry; in the
\* documented scenario the module size is 9, the leftover 9 and the offset 5,
\* and module (0,0) occupies x in [5,14), y in [5,14).
C4_GeometryIsReference ==
  /\ pngOut.done => SameGeometry(pngOut.g)
  /\ svgOut.done => SameGeometry(svgOut.g)
  /\ (Scenario /\ pngOut.done) =>
       /\ pngOut.g.moduleSize = 9 /\ pngOut.g.leftover = 9 /\ pngOut.g.offset = 5
       /\ pngOut.g.available = 198 /\ pngOut.g.contentSize = 189
       /\ <<0, 0>> \in rqr.dark =>
            /\ \A xy \in (5..13) \X (5..13) : PixelAt(xy) = Opaque(rparams.color)
            /\ \A xy \in ((0..4) \X (0..13)) \cup ((0..13) \X (0..4)) :
                 PixelAt(xy) = Opaque(rparams.bgcolor)
  /\ (Scenario /\ svgOut.done) =>
       /\ svgOut.g.moduleSize = 9 /\ svgOut.g.leftover = 9 /\ svgOut.g.offset = 5
       /\ <<0, 0>> \in rqr.dark =>
            svgOut.rects[2] = [x |-> 5, y |-> 5, width |-> 9, height |-> 9,
                               fill |-> <<"#">> \o ColorToHex(rparams.color)]

\* The documented scenario was rendered, module (0,0) dark.
C4_Witness ==
  /\ Scenario /\ svgOut.done /\ ~pngOut.done
  /\ <<0, 0>> \in rqr.dark
  /\ svgOut.g.moduleSize = 9 /\ svgOut.g.offset = 5

\* The pixels of dark modules' squares, clipped or not.
ModulePixels ==
  LET lo(m) == Ref.offsetPx + m * Ref.moduleSizePx
  IN UNION {(lo(rc[2])..(lo(rc[2] + 1) - 1)) \X (lo(rc[1])..(lo(rc[1] + 1) - 1)) :
              rc \in rqr.dark}

\* C5: the module size is at least 1; generatePNG completes and clips: a pixel
\* of a module with x or y >= targetSize is dropped, every store lands inside
\* the buffer at the place of its own pixel, and nothing is stored for a
\* dropped pixel.
C5_ClipsOnly ==
  pngOut.done =>
    /\ pngOut.g.moduleSize >= 1
    /\ \A s \in pngOut.stores :
         /\ s[2] < TargetSize /\ s[3] < TargetSize
         /\ s[1] = (s[3] * TargetSize + s[2]) * 4
         /\ s[1] >= 0 /\ s[1] + 3 < TargetSize * TargetSize * 4
    /\ {<<s[2], s[3]>> : s \in pngOut.stores} = CoveredPixels
    /\ \A xy \in Canvas \ CoveredPixels : PixelAt(xy) = Opaque(rparams.bgcolor)

\* The degenerate request of the specification (targetSize 10, moduleCount 21,
\* quiet zone 4) was rendered, some module pixels kept and some dropped.
C5_Witness ==
  /\ pngOut.done
  /\ TargetSize = 10 /\ rqr.moduleCount = 21 /\ rparams.qzone = 4
  /\ Ref.availablePx < Ref.totalModules
  /\ pngOut.stores # {}
  /\ ModulePixels \ Canvas # {}
\* ------------------------------------------------- parseColor's contract

DecimalDigits == {"0", "1", "2", "3", "4", "5", "6", "7", "8", "9"}
HexDigitChars == DecimalDigits \cup {"a", "b", "c", "d", "e", "f", "A", "B", "C", "D", "E", "F"}

\* A decimal integer in 0..255: digits and nothing else, but for white space
\* and a plus sign before them.
IsByteNumeral(s) ==
  LET blanks == PrefixLen(s, LAMBDA c : c \in WhiteSpace)
      plus == IF Len(s) > blanks /\ s[blanks + 1] = "+" THEN 1 ELSE 0
      digits == StrFrom(s, blanks + plus + 1)
  IN /\ digits # <<>>
     /\ \A i \in 1..Len(digits) : digits[i] \in DecimalDigits
     /\ DigitsValue(digits, 10) <= 255

\* Three dash-separated decimal integers, each in 0..255.
IsDecimalColor(s) ==
  /\ Cardinality({i \in 1..Len(s) : s[i] = "-"}) = 2
  /\ \A part \in {Split(s, "-")[i] : i \in 1..3} : IsByteNumeral(part)

\* Exactly 3 or 6 hexadecimal digits after an optional '#'.
IsHexColor(s) ==
  LET hex == IF s # <<>> /\ s[1] = "#" THEN StrFrom(s, 2) ELSE s
  IN /\ Len(hex) \in {3, 6}
     /\ \A i \in 1..Len(hex) : hex[i] \in HexDigitChars

\* C9: parseColor returns a triple only for three dash-separated decimal
\* integers in 0..255 or for 3 or 6 hexadecimal digits with an optional '#';
\* for every other string it fails with QRParamError.
C9_OnlyWellFormedColors ==
  colorOut.done =>
    /\ colorOut.res.ok => (IsDecimalColor(colorArg) \/ IsHexColor(colorArg))
    /\ ~colorOut.res.ok => colorOut.res.name = "QRParamError"

\* ------------------------------------- validateAndParseParams' contract

\* The documented ranges of a ParsedQRParams.
InRanges(p) ==
  /\ Len(p.data) \in 1..900
  /\ p.format \in {PNG, SVG}
  /\ p.size.width = p.size.height
  /\ p.size.width >= 10
  /\ p.size.width <= (IF p.format = PNG THEN 1000 ELSE 1000000)
  /\ p.margin \in 0..50
  /\ p.qzone \in 0..100
  /\ p.ecc \in {<<"L">>, <<"M">>, <<"Q">>, <<"H">>}
  /\ p.charsetSource \in {UTF8, Latin1}
  /\ p.charsetTarget \in {UTF8, Latin1}

\* An integer written out: digits and nothing else, but for white space and
\* a sign before them.
IsNumeral(s) ==
  LET blanks == PrefixLen(s, LAMBDA c : c \in WhiteSpace)
      signs == IF Len(s) > blanks /\ s[blanks + 1] \in {"+", "-"} THEN 1 ELSE 0
      digits == StrFrom(s, blanks + signs + 1)
  IN digits # <<>> /\ \A i \in 1..Len(digits) : digits[i] \in DecimalDigits

NumeralValue(s) ==
  LET blanks == PrefixLen(s, LAMBDA c : c \in WhiteSpace)
  IN IF s[blanks + 1] = "-" THEN 0 - DigitsValue(StrFrom(s, blanks + 2), 10)
     ELSE IF s[blanks + 1] = "+" THEN DigitsValue(StrFrom(s, blanks + 2), 10)
     ELSE DigitsValue(StrFrom(s, blanks + 1), 10)

Given(raw, key) == key \in DOMAIN raw /\ raw[key] # <<>>

\* The raw size is two equal integers, at least 10 and at most what the format allows.
SizeInside(raw) ==
  LET parts == Split(raw["size"], "x")
      format == IF Given(raw, "format") THEN raw["format"] ELSE PNG
  IN /\ Len(parts) = 2 /\ IsNumeral(parts[1]) /\ IsNumeral(parts[2])
     /\ NumeralValue(parts[1]) = NumeralValue(parts[2])
     /\ NumeralValue(parts[1]) >= 10
     /\ NumeralValue(parts[1]) <= (IF format = SVG THEN 1000000 ELSE 1000)

\* The raw margin or qzone is an integer from 0 to max.
NumberInside(raw, key, max) == IsNumeral(raw[key]) /\ NumeralValue(raw[key]) \in 0..max

NameOutside(raw, key, names) == Given(raw, key) /\ raw[key] \notin names

\* Some raw parameter is outside its documented range.
RawOutside(raw) ==
  \/ ~Given(raw, "data")
  \/ Len(raw["data"]) > 900
  \/ NameOutside(raw, "format", {PNG, SVG})
  \/ Given(raw, "size") /\ ~SizeInside(raw)
  \/ "margin" \in DOMAIN raw /\ ~NumberInside(raw, "margin", 50)
  \/ "qzone" \in DOMAIN raw /\ ~NumberInside(raw, "qzone", 100)
  \/ NameOutside(raw, "ecc", {<<"L">>, <<"M">>, <<"Q">>, <<"H">>})
  \/ NameOutside(raw, "charset-source", {UTF8, Latin1})
  \/ NameOutside(raw, "charset-target", {UTF8, Latin1})

\* C10: every ParsedQRParams validateAndParseParams returns is within the
\* documented ranges, and raw parameters outside them raise QRParamError.
C10_ParsedWithinRanges ==
  parseOut.done =>
    /\ parseOut.res.ok => InRanges(parseOut.res)
    /\ RawOutside(rawArg) => (~parseOut.res.ok /\ parseOut.res.name = "QRParamError")

\* ----------------------------------------------- handleQRCodeRequest's contract

\* The parameters of the invocation under way failed validation.
ValidationFailed == validated.done /\ ~validated.res.ok

\* The library could not encode what generateQRCode gave it.
EncodingFailed == promise.done /\ ~promise.res.ok

IsImageResponse ==
  response.done /\ (response.status \in {200, 304} \/ response.body.kind \in {"png", "svg"})

\* C6: a request whose parameters fail validation stops there: generateQRCode
\* is not called for it (and is called only for parameters that passed), and the
\* response is the error's status, a 4xx, with the error's message as plain
\* text, never an image or a 200 or 304.
C6_InvalidHaltsAtValidation ==
  /\ promise.done => validated.done /\ validated.res.ok
  /\ ValidationFailed =>
       /\ ~promise.done
       /\ pc = "done"
       /\ response.done
       /\ response.status = validated.res.statusCode
       /\ response.status \in 400..499
       /\ response.body.kind = "text"
       /\ response.body.text = validated.res.message
       /\ response.body.text # "Internal Server Error"
       /\ response.headers["Content-Type"] = "text/plain"
       /\ ~IsImageResponse

\* A POST whose merged parameters failed a check after the data's was answered.
C6_Witness ==
  /\ ValidationFailed /\ pc = "done" /\ response.status = 400
  /\ request.method = "POST" /\ "data" \in DOMAIN reqParams /\ reqParams["data"] # <<>>

\* C7 as stated: when the library cannot encode, the caller gets a 4xx with a
\* descriptive message, not a generic internal failure.
C7_AsStated ==
  (EncodingFailed /\ response.done) =>
     /\ response.status \in 400..499
     /\ response.body.kind = "text"
     /\ response.body.text # "Internal Server Error"

\* C7, amended: when the parameters pass validation and the library cannot
\* encode, the caller gets the generic internal failure: status 500 with the
\* plain text "Internal Server Error", never an image or a 200 or 304, and
\* nothing of what the library threw.
C7_EncodingFailureIsGeneric ==
  (EncodingFailed /\ pc = "done") =>
     /\ validated.res.ok
     /\ response.done
     /\ response.status = 500
     /\ response.body = [kind |-> "text", text |-> "Internal Server Error"]
     /\ response.headers["Content-Type"] = "text/plain"
     /\ ~IsImageResponse

\* The long text passed validation, the library threw, and the handler answered.
C7_Witness ==
  /\ EncodingFailed /\ pc = "done" /\ response.done
  /\ validated.res.ok /\ validated.res.data = LongText

\* The value the query string gives the key: that of its last entry for it.
QueryHas(req, key) == \E i \in 1..Len(req.query) : req.query[i][1] = key
QueryValue(req, key) ==
  LET last == CHOOSE i \in 1..Len(req.query) :
                /\ req.query[i][1] = key
                /\ \A j \in (i + 1)..Len(req.query) : req.query[j][1] # key
  IN req.query[last][2]

\* The request is a POST whose body is form-urlencoded or JSON.
HasParameterBody(req) ==
  /\ req.method = "POST" /\ req.contentType # Absent
  /\ \/ IncludesStr(req.contentType, FormType) /\ req.body.kind = "form"
     \/ IncludesStr(req.contentType, JsonType) /\ req.body.kind = "json"

\* The strings the body gives the key (one at most in the requests modelled).
BodyValues(req, key) ==
  {IF req.body.kind = "form" THEN req.body.entries[i][2] ELSE req.body.entries[i][2].val :
     i \in {j \in 1..Len(req.body.entries) :
              /\ req.body.entries[j][1] = key
              /\ req.body.kind = "json" => req.body.entries[j][2].type = "string"}}

\* C8: the parameters handed to validation have, for a key in the query string
\* and in the body, the query string's value, and for a key in the body only
\* (as a string), the body's value.
C8_GetTakesPrecedence ==
  (validated.done /\ HasParameterBody(request)) =>
     \A key \in {request.body.entries[i][1] : i \in 1..Len(request.body.entries)} :
        IF QueryHas(request, key)
        THEN key \in DOMAIN reqParams /\ reqParams[key] = QueryValue(request, key)
        ELSE \A v \in BodyValues(request, key) :
               key \in DOMAIN reqParams /\ reqParams[key] = v
\* ------------------------------------------------ convertCharset's contract

ToLatin1(call) == call.from = UTF8 /\ call.to = Latin1
ToUtf8(call) == call.from = Latin1 /\ call.to = UTF8

\* Every character of the text is ASCII.
IsAsciiText(text) == \A k \in 1..Len(text) : CharCodeAt(text[k]) <= 127

\* C11: a conversion from UTF-8 to ISO-8859-1 returns a text with no character
\* outside 0..255; converting that text again from UTF-8 to ISO-8859-1 returns
\* it unchanged; and a text of ASCII characters converted from UTF-8 to
\* ISO-8859-1 and then from ISO-8859-1 to UTF-8 comes back unchanged.
C11_ConvertIsIdempotent ==
  \A i \in 1..Len(charsetCalls) :
     LET call == charsetCalls[i]
     IN ToLatin1(call) =>
          /\ Len(call.res) = Len(call.text)
          /\ \A k \in 1..Len(call.res) : CharCodeAt(call.res[k]) \in 0..255
          /\ i < Len(charsetCalls) =>
                LET again == charsetCalls[i + 1]
                IN /\ again.text = call.res
                   /\ ToLatin1(again) => again.res = call.res
                   /\ ToUtf8(again) /\ IsAsciiText(call.text) => again.res = call.text

\* A text with the euro sign and a character of Latin-1 is converted twice to
\* ISO-8859-1, the first conversion having replaced the euro sign.
C11_Witness ==
  /\ Len(charsetCalls) = 2
  /\ ToLatin1(charsetCalls[1]) /\ ToLatin1(charsetCalls[2])
  /\ charsetArg = <<"a", Euro, YDiaeresis>>
  /\ charsetCalls[1].res = <<"a", "?", YDiaeresis>>
  /\ charsetCalls[2].res = <<"a", "?", YDiaeresis>>
\* ------------------------------------------------------------ revalidation

\* The exchange was of a valid request that was sent an ETag.
SentETag(exchange) ==
  exchange.validated.done /\ exchange.validated.res.ok /\ exchange.etag # Absent

\* The request now answered has the normalized parameters of the exchange.
SameNormalized(exchange) ==
  validated.done /\ validated.res.ok /\ validated.res = exchange.validated.res

\* C12: a request with the normalized parameters of an earlier valid request
\* that was sent an ETag is sent the same ETag, whatever of the query string, the
\* body and the defaults each got its parameters from; and when the earlier one
\* was answered 200 and the later one carries that ETag as If-None-Match, the
\* later one is answered 304 with that ETag and no body.
C12_SameParamsSameETag ==
  pc = "done" =>
    \A k \in 1..Len(served) :
       (SentETag(served[k]) /\ SameNormalized(served[k])) =>
          /\ response.status \in {200, 304}
          /\ ETagHeader(response) = served[k].etag
          /\ (served[k].status = 200 /\ request.ifNoneMatch = served[k].etag) =>
                /\ response.status = 304
                /\ response.body = [kind |-> "null"]

\* A GET that left the format out was answered 200, and a POST that gives the
\* format in its form, carrying the ETag of that answer, is answered 304.
C12_Witness ==
  /\ pc = "done" /\ Len(served) = 1
  /\ served[1].status = 200 /\ served[1].request.method = "GET"
  /\ ~QueryHas(served[1].request, "format")
  /\ SameNormalized(served[1])
  /\ request.method = "POST" /\ request.body.kind = "form"
  /\ request.ifNoneMatch = served[1].etag
  /\ response.status = 304
\* ------------------------------------------------------------- concurrency

\* The body's promise is rejected: a POST of JSON whose body is not JSON.
JsonRejected(req) ==
  /\ req.method = "POST" /\ req.contentType # Absent
  /\ ~IncludesStr(req.contentType, FormType) /\ IncludesStr(req.contentType, JsonType)
  /\ req.body.kind = "malformed"

\* The parameters a request handled alone has merged once its body is read.
AloneMerged(req) ==
  IF req.method = "POST" /\ req.contentType # Absent /\ IncludesStr(req.contentType, FormType)
  THEN MergeFormData(SearchParams(req.query), req.body.entries)
  ELSE IF req.method = "POST" /\ req.contentType # Absent /\ IncludesStr(req.contentType, JsonType)
  THEN MergeJson(SearchParams(req.query), req.body.entries)
  ELSE SearchParams(req.query)

\* What a request handled alone leaves once the library has run.
AloneGenerated(req, merged, parsedParams, image) ==
  [reqParams |-> merged,
   validated |-> [done |-> TRUE, res |-> parsedParams],
   promise |-> [done |-> TRUE, res |-> image],
   response |-> IF image.ok THEN ImageResponse(req, parsedParams, image, ETagOf(parsedParams))
                ELSE CatchResponse(image)]

\* What a request handled alone leaves once its parameters are validated.
AloneValidated(lib, req, merged, parsedParams) ==
  IF parsedParams.ok
  THEN AloneGenerated(req, merged, parsedParams, GenerateQRCode(lib, parsedParams))
  ELSE [reqParams |-> merged,
        validated |-> [done |-> TRUE, res |-> parsedParams],
        promise |-> NotRun,
        response |-> CatchResponse(parsedParams)]

\* The merged parameters, the parsed ones, the image and the Response of a
\* request that is handled with no other under way.
HandledAlone(lib, req) ==
  IF JsonRejected(req)
  THEN [reqParams |-> SearchParams(req.query), validated |-> NotRun, promise |-> NotRun,
        response |-> CatchResponse([ok |-> FALSE, name |-> "SyntaxError",
                                    message |-> "Unexpected token"])]
  ELSE AloneValidated(lib, req, AloneMerged(req), ValidateAndParseParams(AloneMerged(req)))

\* The invocation that is running has what the request gets handled alone.
AsAlone(alone) ==
  /\ reqParams = alone.reqParams
  /\ validated = alone.validated
  /\ promise = alone.promise
  /\ pc = "done" => response = alone.response

\* C13: whatever other invocations are under way and however they take turns at
\* their awaits, an invocation's merged parameters, image and Response are those
\* its request gets when it is handled alone.
C13_NoInterference ==
  pc \in {"generate", "done"} => AsAlone(HandledAlone(qrlib, request))

\* Two different requests are under way, neither answered: the first, a POST of
\* a form, has its Response after the second, a POST of JSON, was received and
\* went past its first await, and the second waits for its image.
C13_Witness ==
  /\ Len(inbox) = 2 /\ taken = 2 /\ served = <<>>
  /\ inbox[1] # inbox[2]
  /\ pc = "done" /\ request = inbox[1] /\ request.body.kind = "form"
  /\ response.status = 200
  /\ Len(parked) = 1 /\ parked[1].request = inbox[2]
  /\ parked[1].request.body.kind = "json" /\ parked[1].pc = "generate"
\* ------------------------------------------------------- symbol placement

\* The symbol with its quiet zone fits in what the margins leave.
Fits(g) == g.available >= g.totalModules

\* Where the symbol with its quiet zone begins and ends on either axis, and
\* where its modules do (the end is the first pixel past).
ZoneStart(g) == g.offset - rparams.qzone * g.moduleSize
ZoneEnd(g) == g.offset + (g.moduleCount + rparams.qzone) * g.moduleSize
ModulesEnd(g) == g.offset + g.moduleCount * g.moduleSize

\* The coordinates of the margin band and of the quiet-zone band on one axis.
MarginBand(g) ==
  (0..(rparams.margin - 1)) \cup ((TargetSize - rparams.margin)..(TargetSize - 1))
QuietBand(g) ==
  (ZoneStart(g)..(g.offset - 1)) \cup (ModulesEnd(g)..(ZoneEnd(g) - 1))

\* The symbol with its quiet zone lies inside the margin, with the blank before
\* it at most the blank after it and at most one pixel less.
Placed(g) ==
  /\ ZoneStart(g) >= rparams.margin
  /\ ZoneEnd(g) <= TargetSize - rparams.margin
  /\ ZoneStart(g) <= TargetSize - ZoneEnd(g)
  /\ (TargetSize - ZoneEnd(g)) - ZoneStart(g) <= 1

\* C14: when the symbol fits (available >= totalModules), in the raster and in
\* the SVG the symbol with its quiet zone lies inside the margin on both axes,
\* no pixel is painted and no rectangle of a module reaches into the margin band
\* or the quiet-zone band, and the symbol is centred: the blank before it is at
\* most the blank after it, and they differ by at most 1.
C14_SymbolInsideMargin ==
  /\ (pngOut.done /\ Fits(pngOut.g)) =>
       /\ Placed(pngOut.g)
       /\ \A s \in pngOut.stores :
            /\ s[2] \notin MarginBand(pngOut.g) \cup QuietBand(pngOut.g)
            /\ s[3] \notin MarginBand(pngOut.g) \cup QuietBand(pngOut.g)
       /\ \A xy \in Canvas :
            (\E k \in 1..2 : xy[k] \in MarginBand(pngOut.g) \cup QuietBand(pngOut.g)) =>
               PixelAt(xy) = Opaque(rparams.bgcolor)
  /\ (svgOut.done /\ Fits(svgOut.g)) =>
       /\ Placed(svgOut.g)
       /\ \A i \in 2..Len(svgOut.rects) :
            LET rect == svgOut.rects[i]
            IN /\ rect.x >= svgOut.g.offset /\ rect.x + rect.width <= ModulesEnd(svgOut.g)
               /\ rect.y >= svgOut.g.offset /\ rect.y + rect.height <= ModulesEnd(svgOut.g)

\* A symbol with margin 1 and a quiet zone of 4 modules that fits with an odd
\* leftover was rendered both ways, with pixels painted.
C14_Witness ==
  /\ pngOut.done /\ svgOut.done
  /\ Fits(pngOut.g) /\ Fits(svgOut.g)
  /\ rparams.margin = 1 /\ rparams.qzone = 4
  /\ pngOut.g.leftover % 2 = 1
  /\ pngOut.stores # {}
  /\ Len(svgOut.rects) > 1
====
